---- MODULE Spec2Model ----
(***************************************************************************)
(* Model of src/src/custom/HDXGoogleDLPRedactor.ts: the overlap resolver   *)
(* removeOverlappingFindings, the likelihood filter and substitution of    *)
(* doRedactAsync / doInspectStructured, and the batching loops of          *)
(* redactAsync / inspectStructured.                                        *)
(*                                                                         *)
(* Strings are sequences of one-character strings.  A finding is the       *)
(* record the DLP engine returns (likelihood, quote, infoType.name,        *)
(* location.byteRange) plus a field ref that stands for the identity of    *)
(* the JavaScript object.                                                  *)
(***************************************************************************)
EXTENDS Integers, Sequences, FiniteSets, TLC

\* ------------------------------------------------------------------ bounds
\* largest byte offset of a finding in the resolver specification
MaxPos == 2
\* longest finding list handed to removeOverlappingFindings
MaxFindings == 3

\* ------------------------------------------------------- JavaScript helpers
Min(a, b) == IF a < b THEN a ELSE b
Max(a, b) == IF a > b THEN a ELSE b

\* a decimal digit character and its value
DigitChars == <<"0", "1", "2", "3", "4", "5", "6", "7", "8", "9">>
DigitValue(c) == (CHOOSE d \in 1..10 : DigitChars[d] = c) - 1

\* Number(s) for a string of decimal digits, as the byteRange offsets arrive
RECURSIVE Number(_)
Number(s) ==
    IF Len(s) = 0 THEN 0
    ELSE 10 * Number(SubSeq(s, 1, Len(s) - 1)) + DigitValue(s[Len(s)])

\* the decimal string the engine sends for offset n
RECURSIVE DecimalString(_)
DecimalString(n) ==
    IF n < 10 THEN <<DigitChars[n + 1]>>
    ELSE Append(DecimalString(n \div 10), DigitChars[(n % 10) + 1])

\* byteRange as the engine sends it: int64 fields are strings, and a field
\* whose value is 0 is left out of the message
ByteRange(s, e) ==
    IF s = 0 /\ e = 0 THEN <<>>
    ELSE IF s = 0 THEN [end |-> DecimalString(e)]
    ELSE [start |-> DecimalString(s), end |-> DecimalString(e)]

\* ------------------------------------------------------- likelihood ranks
likelihoodPriority ==
    [l \in {"EXCLUDE", "LIKELIHOOD_UNSPECIFIED", "VERY_UNLIKELY", "UNLIKELY",
            "POSSIBLE", "LIKELY", "VERY_LIKELY"} |->
        CASE l = "EXCLUDE" -> -1
          [] l = "LIKELIHOOD_UNSPECIFIED" -> 0
          [] l = "VERY_UNLIKELY" -> 1
          [] l = "UNLIKELY" -> 2
          [] l = "POSSIBLE" -> 3
          [] l = "LIKELY" -> 4
          [] l = "VERY_LIKELY" -> 5]

\* likelihoodPriority[l] is undefined for a name that is no key of the table
HasPriority(l) == l \in DOMAIN likelihoodPriority

\* ---------------------------------------------------------------- findings
getFindingStart(finding) ==
    IF "start" \in DOMAIN finding.location.byteRange
    THEN Number(finding.location.byteRange.start)
    ELSE 0

getFindingEnd(finding) ==
    IF "end" \in DOMAIN finding.location.byteRange
    THEN Number(finding.location.byteRange.end)
    ELSE 0

Finding(ref, name, likelihood, quote, s, e) ==
    [ref |-> ref,
     likelihood |-> likelihood,
     quote |-> quote,
     infoType |-> [name |-> name],
     location |-> [byteRange |-> ByteRange(s, e)]]

\* ------------------------------------------------ removeOverlappingFindings
\* Array.prototype.sort is stable (ECMAScript 2019): insertion of x after the
\* elements whose start is not greater keeps the input order of equal starts
RECURSIVE InsertByStart(_, _)
InsertByStart(sorted, x) ==
    IF Len(sorted) = 0 THEN <<x>>
    ELSE IF getFindingStart(sorted[Len(sorted)]) - getFindingStart(x) <= 0
         THEN Append(sorted, x)
         ELSE Append(InsertByStart(SubSeq(sorted, 1, Len(sorted) - 1), x),
                     sorted[Len(sorted)])

RECURSIVE SortRec(_, _)
SortRec(fs, n) ==
    IF n = 0 THEN <<>> ELSE InsertByStart(SortRec(fs, n - 1), fs[n])

\* a plausible slip: the list is swept in input order, never sorted
SortByStartUnsorted(fs) == fs

\* findings.sort((a, b) => getFindingStart(a) - getFindingStart(b))
SortByStart(fs) == SortRec(fs, Len(fs))

\* a plausible slip: >= lets a later finding of equal rank replace the kept one
HigherLikelihoodOrEqual(current, previous) ==
    /\ HasPriority(current.likelihood)
    /\ HasPriority(previous.likelihood)
    /\ likelihoodPriority[current.likelihood] >= likelihoodPriority[previous.likelihood]

\* likelihoodPriority[current.likelihood] > likelihoodPriority[previous.likelihood]
\* (a comparison with undefined is false)
HigherLikelihood(current, previous) ==
    /\ HasPriority(current.likelihood)
    /\ HasPriority(previous.likelihood)
    /\ likelihoodPriority[current.likelihood] > likelihoodPriority[previous.likelihood]

\* one iteration of the sweep: current against the last kept finding
SweepStep(kept, current) ==
    LET previous == kept[Len(kept)] IN
    IF getFindingStart(current) < getFindingEnd(previous)
    THEN IF HigherLikelihood(current, previous)
         THEN [kept EXCEPT ![Len(kept)] = current]
         ELSE kept
    ELSE Append(kept, current)

RECURSIVE Sweep(_, _)
Sweep(sorted, i) ==
    IF i = 1 THEN <<sorted[1]>>
    ELSE SweepStep(Sweep(sorted, i - 1), sorted[i])

\* the array removeOverlappingFindings returns
removeOverlappingFindings(fs) ==
    IF Len(fs) <= 1 THEN fs
    ELSE Sweep(SortByStart(fs), Len(fs))

\* the argument array after the call: sorted in place when it has 2 or more
AfterRemoveOverlapping(fs) ==
    IF Len(fs) <= 1 THEN fs ELSE SortByStart(fs)


\* ------------------------------------------------------------ doRedactAsync
\* a finding quote shorter than this is never replaced
MIN_FINDING_QUOTE_LENGTH == 2
\* the replace loop of one finding runs at most this many times
MaxSearches == 1000
\* a response of this many findings or more counts as capped
FindingsCapThreshold == 2000

\* the value of the filter parameter when the caller passes none (filter?: any):
\* undefined, written as a function that no policy object equals
undefined == [n \in {<<"undefined">>} |-> -2]

\* filter[a.infoType.name] on undefined throws a TypeError; the callback of
\* findings.filter runs only when there is a finding
LookupThrows(fs, filter) == Len(fs) > 0 /\ filter = undefined

\* filter[a.infoType.name] <= LIKELIHOOD_PRIORITY[a.likelihood] || !filter[a.infoType.name]
\* (a missing entry is undefined: the comparison is false and the negation
\* true; an entry of 0 is falsy as well)
Keep(a, filter) ==
    LET name == a.infoType.name IN
    \/ /\ name \in DOMAIN filter
       /\ HasPriority(a.likelihood)
       /\ filter[name] <= likelihoodPriority[a.likelihood]
    \/ name \notin DOMAIN filter
    \/ filter[name] = 0

\* findings.filter(a => ...), run only when findings.length > 0
FilterFindings(fs, filter) ==
    IF Len(fs) > 0 THEN SelectSeq(fs, LAMBDA a : Keep(a, filter)) ELSE fs

\* stable sort, highest likelihood first:
\* sort((a, b) => likelihoodPriority[b.likelihood] - likelihoodPriority[a.likelihood])
\* (undefined - n is NaN, and sort takes a comparator result of NaN as +0)
RECURSIVE InsertByLikelihood(_, _)
InsertByLikelihood(sorted, x) ==
    IF Len(sorted) = 0 THEN <<x>>
    ELSE IF \/ ~HasPriority(x.likelihood)
            \/ ~HasPriority(sorted[Len(sorted)].likelihood)
            \/ likelihoodPriority[x.likelihood]
                  - likelihoodPriority[sorted[Len(sorted)].likelihood] <= 0
         THEN Append(sorted, x)
         ELSE Append(InsertByLikelihood(SubSeq(sorted, 1, Len(sorted) - 1), x),
                     sorted[Len(sorted)])

RECURSIVE SortByLikelihoodRec(_, _)
SortByLikelihoodRec(fs, n) ==
    IF n = 0 THEN <<>>
    ELSE InsertByLikelihood(SortByLikelihoodRec(fs, n - 1), fs[n])

SortByLikelihood(fs) == SortByLikelihoodRec(fs, Len(fs))

\* text.indexOf(find): the first 0-based position of find in text, or -1
IndexOf(text, find) ==
    LET hits == {p \in 0..(Len(text) - Len(find)) :
                    SubSeq(text, p + 1, p + Len(find)) = find}
    IN IF hits = {} THEN -1 ELSE CHOOSE p \in hits : \A q \in hits : p <= q

\* text.replace(find, label) with a string pattern: the first occurrence only
ReplaceFirst(text, find, label) ==
    LET p == IndexOf(text, find) IN
    IF p < 0 THEN text
    ELSE SubSeq(text, 1, p) \o label \o SubSeq(text, p + Len(find) + 1, Len(text))

\* a plausible slip: the loop has no iteration bound
LoopTestUnbounded(text, find, n) == IndexOf(text, find) >= 0

\* numSearches++ < 1000 && textToRedact.indexOf(find) >= 0, for the value n
\* of numSearches before the increment
LoopTest(text, find, n) == n < MaxSearches /\ IndexOf(text, find) >= 0

\* while (numSearches++ < 1000 && textToRedact.indexOf(find) >= 0) replace
RECURSIVE ReplaceLoop(_, _, _, _)
ReplaceLoop(text, find, label, n) ==
    IF LoopTest(text, find, n)
    THEN ReplaceLoop(ReplaceFirst(text, find, label), find, label, n + 1)
    ELSE text

\* find !== finding.infoType.name && find.length >= MIN_FINDING_QUOTE_LENGTH
Replaceable(finding) ==
    /\ finding.quote # finding.infoType.name
    /\ Len(finding.quote) >= MIN_FINDING_QUOTE_LENGTH

\* a different design: every match is masked character by character, whatever
\* the quote is
ReplaceFindingMasked(text, finding) ==
    IF Len(finding.quote) >= MIN_FINDING_QUOTE_LENGTH
    THEN ReplaceLoop(text, finding.quote, [i \in 1..Len(finding.quote) |-> "*"], 0)
    ELSE text

\* the body of the forEach for one finding
ReplaceFinding(text, finding) ==
    IF Replaceable(finding)
    THEN ReplaceLoop(text, finding.quote, finding.infoType.name, 0)
    ELSE text

RECURSIVE ReplaceAll(_, _, _)
ReplaceAll(text, fs, n) ==
    IF n = 0 THEN text
    ELSE ReplaceFinding(ReplaceAll(text, fs, n - 1), fs[n])

\* the sort by likelihood and the forEach that replaces
SortAndReplace(text, findingsWithoutOverlaps) ==
    LET sorted == SortByLikelihood(findingsWithoutOverlaps)
    IN ReplaceAll(text, sorted, Len(sorted))

\* the replaceText branch: resolve overlaps, sort by likelihood, replace
Substitute(text, filtered) == SortAndReplace(text, removeOverlappingFindings(filtered))

\* the names getInspectConfig requests (opts.includeInfoTypes, opts.customInfoTypes)
InfoTypeNames == <<<<"P", "N">>, <<"U">>>>
getInspectConfig == [infoTypes |-> InfoTypeNames]

\* the array doRedactAsync returns as findings: filteredFindings, which
\* removeOverlappingFindings has sorted in place when replaceText is set
ReturnedFindings(raw, filter, replaceText) ==
    IF Len(raw) > 0 /\ replaceText
    THEN AfterRemoveOverlapping(FilterFindings(raw, filter))
    ELSE FilterFindings(raw, filter)

\* the value doRedactAsync resolves to once inspectContent has returned raw
DoRedactOutput(text, raw, filter, replaceText) ==
    [config |-> [infoTypes |-> getInspectConfig.infoTypes],
     text |-> IF Len(raw) > 0 /\ replaceText
              THEN Substitute(text, FilterFindings(raw, filter))
              ELSE text,
     findings |-> ReturnedFindings(raw, filter, replaceText),
     metrics |-> [maxFindings |-> Len(raw),
                  findingsCap |-> IF Len(raw) >= FindingsCapThreshold THEN 1 ELSE 0]]


\* ------------------------------------------------------ doInspectStructured
\* response.result.findings, or [] when the response has none
ResponseFindings(response) ==
    IF "findings" \in DOMAIN response THEN response.findings ELSE <<>>

\* the value doInspectStructured resolves to once the request has returned
DoInspectOutput(response, filter) ==
    LET fs == ResponseFindings(response) IN
    [config |-> [infoTypes |-> getInspectConfig.infoTypes],
     text |-> <<>>,
     findings |-> FilterFindings(fs, filter),
     metrics |-> [maxFindings |-> Len(fs),
                  findingsCap |-> IF Len(fs) >= FindingsCapThreshold THEN 1 ELSE 0]]

\* --------------------------------------------- redactAsync, inspectStructured
\* the size budget of a table request
TableBudget == 50000
\* MAX_PROMISES when the environment does not set it
DefaultMaxPromises == 5

\* text.substring(from, to): both ends clamped to 0..length, swapped if needed
Clamp(x, len) == Max(0, Min(x, len))
Substring(text, from, to) ==
    LET a == Clamp(from, Len(text))
        b == Clamp(to, Len(text))
    IN SubSeq(text, Min(a, b) + 1, Max(a, b))

\* rows.slice(from, to): a negative end counts from the end of the array
SliceIndex(x, len) == IF x < 0 THEN Max(len + x, 0) ELSE Min(x, len)
Slice(rows, from, to) ==
    SubSeq(rows, SliceIndex(from, Len(rows)) + 1, SliceIndex(to, Len(rows)))

\* Math.trunc(50000 / headers.length / 2) - 1, for headers.length >= 1
RowsPerBatch(headerCount) == (TableBudget \div (2 * headerCount)) - 1

\* rows.length > maxContentSize; 50000 / 0 is Infinity, which no length exceeds
RowsExceed(rowCount, headerCount) ==
    headerCount # 0 /\ rowCount > RowsPerBatch(headerCount)

RECURSIVE ConcatTexts(_, _)
ConcatTexts(results, n) ==
    IF n = 1 THEN results[1].text
    ELSE ConcatTexts(results, n - 1) \o results[n].text

\* a plausible change: the spans of slice n are moved by the length of the
\* slices before it, to offsets in the whole content
RECURSIVE ConcatFindingsRebased(_, _)
ConcatFindingsRebased(results, n) ==
    IF n = 1 THEN results[1].findings
    ELSE LET off == Len(ConcatTexts(results, n - 1))
             fs == results[n].findings
         IN ConcatFindingsRebased(results, n - 1) \o
            [i \in 1..Len(fs) |->
                [fs[i] EXCEPT !.location.byteRange =
                    ByteRange(getFindingStart(fs[i]) + off, getFindingEnd(fs[i]) + off)]]

RECURSIVE ConcatFindings(_, _)
ConcatFindings(results, n) ==
    IF n = 1 THEN results[1].findings
    ELSE ConcatFindings(results, n - 1) \o results[n].findings

RECURSIVE MaxOfMaxFindings(_, _)
MaxOfMaxFindings(results, n) ==
    IF n = 1 THEN results[1].metrics.maxFindings
    ELSE Max(MaxOfMaxFindings(results, n - 1), results[n].metrics.maxFindings)

\* a plausible slip: the flags are or-ed (the largest is taken), not added
RECURSIVE LargestFindingsCap(_, _)
LargestFindingsCap(results, n) ==
    IF n = 1 THEN results[1].metrics.findingsCap
    ELSE Max(LargestFindingsCap(results, n - 1), results[n].metrics.findingsCap)

RECURSIVE SumOfFindingsCap(_, _)
SumOfFindingsCap(results, n) ==
    IF n = 1 THEN results[1].metrics.findingsCap
    ELSE SumOfFindingsCap(results, n - 1) + results[n].metrics.findingsCap

\* the object the batched branch returns; reduce without an initial value
\* throws a TypeError on an empty array
Merge(results) ==
    LET n == Len(results) IN
    IF n = 0 THEN [status |-> "rejected", reason |-> [error |-> "TypeError"]]
    ELSE [status |-> "fulfilled",
          value |-> [config |-> [infoTypes |-> results[n].config.infoTypes],
                     findings |-> ConcatFindings(results, n),
                     text |-> ConcatTexts(results, n),
                     metrics |-> [findingsCap |-> SumOfFindingsCap(results, n),
                                  maxFindings |-> MaxOfMaxFindings(results, n)]]]

\* ------------------------------------------------------------------ state
VARIABLES
    findings,        \* removeOverlappingFindings: the argument array
    resultFindings,  \* removeOverlappingFindings: the returned array
    rofPc,           \* "call" before the call, "returned" after it
    doText,          \* doRedactAsync called on its own: textToRedact
    doFilter,        \* its filter argument
    doReplaceText,   \* its replaceText argument
    doRaw,           \* the findings inspectContent returned
    doPc,            \* "idle", "getProjectId", "inspectContent", "resolved", "rejected"
    doOutput,        \* the value or the error the promise settled with
    opts,            \* the constructor's options
    MAX_PROMISES,    \* process.env.MAX_PROMISES, or 5
    op,              \* "none", "redactAsync" or "inspectStructured"
    textToRedact,    \* redactAsync: the content
    headers,         \* inspectStructured: the header list
    rows,            \* inspectStructured: the rows
    filter,          \* the filter argument of either
    maxContentSize,  \* the batch size computed on entry
    batchStartIndex,
    batchPromises,   \* the calls of the current wave, by their index in calls
    batchResults,
    calls,           \* every doRedactAsync / doInspectStructured call issued
    settled,         \* the settled calls of the current wave, in settlement order
    pc,              \* "idle", "loop", "awaitWave", "awaitLast", "awaitSingle", "done"
    outcome,         \* what the promise of the run settled with
    subInput,        \* the replaceText branch: textToRedact as it was passed
    subText,         \* textToRedact, which the replace loop overwrites
    subFindings,     \* findingsWithoutOverlaps
    subIndex,        \* the position of forEach in findingsWithoutOverlaps
    numSearches,     \* numSearches of the current callback
    subPc            \* "sort", "forEach", "loop", "done"

rofVars == <<findings, resultFindings, rofPc>>
doVars == <<doText, doFilter, doReplaceText, doRaw, doPc, doOutput>>
envVars == <<opts, MAX_PROMISES>>
argVars == <<op, textToRedact, headers, rows, filter, maxContentSize>>
loopVars == <<batchStartIndex, batchPromises, batchResults>>
runVars == <<envVars, argVars, loopVars, calls, settled, pc, outcome>>
subVars == <<subInput, subText, subFindings, subIndex, numSearches, subPc>>
vars == <<rofVars, doVars, runVars, subVars>>

\* the variables of a part of the program that a specification leaves alone
RofIdle == findings = <<>> /\ resultFindings = <<>> /\ rofPc = "unused"
DoIdle ==
    /\ doText = <<>>
    /\ doFilter = <<>>
    /\ doReplaceText = FALSE
    /\ doRaw = <<>>
    /\ doPc = "idle"
    /\ doOutput = <<>>
SubIdle ==
    /\ subInput = <<>>
    /\ subText = <<>>
    /\ subFindings = <<>>
    /\ subIndex = 0
    /\ numSearches = 0
    /\ subPc = "unused"
RunIdle ==
    /\ opts = <<>>
    /\ MAX_PROMISES = DefaultMaxPromises
    /\ op = "none"
    /\ textToRedact = <<>>
    /\ headers = <<>>
    /\ rows = <<>>
    /\ filter = <<>>
    /\ maxContentSize = 0
    /\ batchStartIndex = 0
    /\ batchPromises = <<>>
    /\ batchResults = <<>>
    /\ calls = <<>>
    /\ settled = <<>>
    /\ pc = "unused"
    /\ outcome = <<>>

\* ------------------------------------- specification of the resolver alone
ResolverLikelihoods == {"LIKELY", "VERY_LIKELY"}
Spans == {sp \in (0..MaxPos) \X (0..MaxPos) : sp[1] <= sp[2]}
Shapes == Spans \X ResolverLikelihoods

\* a list of findings with the given spans and likelihoods; ref is the position
\* in the list the caller passes
FindingList(sh) ==
    [i \in DOMAIN sh |->
        Finding(i, <<"N">>, sh[i][2], <<>>, sh[i][1][1], sh[i][1][2])]

\* every list of at most MaxFindings findings with 0 <= start <= end <= MaxPos
ResolverInit ==
    /\ \E n \in 0..MaxFindings : \E sh \in [1..n -> Shapes] :
          findings = FindingList(sh)
    /\ resultFindings = <<>>
    /\ rofPc = "call"
    /\ DoIdle
    /\ RunIdle
    /\ SubIdle

\* a call of removeOverlappingFindings(findings)
RemoveOverlappingFindings ==
    /\ rofPc = "call"
    /\ resultFindings' = removeOverlappingFindings(findings)
    /\ findings' = AfterRemoveOverlapping(findings)
    /\ rofPc' = "returned"
    /\ UNCHANGED <<doVars, runVars, subVars>>

ResolverNext == RemoveOverlappingFindings

SpecResolver == ResolverInit /\ [][ResolverNext]_vars

\* ------------------------------------------------------ resolver properties
Range(s) == {s[i] : i \in 1..Len(s)}
Rank(f) == likelihoodPriority[f.likelihood]

\* the spans of a and b overlap: a.start < b.end && b.start < a.end
Overlaps(a, b) ==
    /\ getFindingStart(a) < getFindingEnd(b)
    /\ getFindingStart(b) < getFindingEnd(a)

\* C1: the list returned by removeOverlappingFindings has no two distinct
\* findings whose spans overlap
C1_NoOverlapInOutput ==
    rofPc = "returned" =>
        \A i, j \in 1..Len(resultFindings) :
            i # j => ~Overlaps(resultFindings[i], resultFindings[j])

\* the resolver dropped or replaced something and kept two or more findings
C1_Witness ==
    /\ rofPc = "returned"
    /\ Len(findings) = 3
    /\ Len(resultFindings) = 2
    /\ \E i, j \in 1..Len(findings) : i # j /\ Overlaps(findings[i], findings[j])
    /\ findings[1].ref # 1

\* K is a set of findings whose spans overlap pairwise
Cluster(K) == K # {} /\ \A a, b \in K : a # b => Overlaps(a, b)
\* no finding of the input can be added to K
MaximalCluster(K) ==
    /\ Cluster(K)
    /\ \A f \in Range(findings) \ K : ~Cluster(K \cup {f})
MaximalClusters == {K \in SUBSET Range(findings) : MaximalCluster(K)}

\* f comes before g under the tie rule: higher rank, then earlier start, then
\* earlier in the input
Beats(f, g) ==
    \/ Rank(f) > Rank(g)
    \/ /\ Rank(f) = Rank(g)
       /\ \/ getFindingStart(f) < getFindingStart(g)
          \/ getFindingStart(f) = getFindingStart(g) /\ f.ref < g.ref
Best(K) == CHOOSE f \in K : \A g \in K \ {f} : Beats(f, g)

\* exactly one finding of every cluster in MC is returned, the best one
OneBestPerCluster(MC) ==
    \A K \in MC : K \cap Range(resultFindings) = {Best(K)}

\* C2 as stated: of every maximal cluster of pairwise overlapping input spans
\* exactly one finding is returned, the one of maximum rank (earliest start,
\* then earliest in the input, among equal ranks)
C2_Original == rofPc = "returned" => OneBestPerCluster(MaximalClusters)

\* no finding belongs to two of the clusters in MC and no span is empty
DisjointClusters(MC) ==
    /\ \A f \in Range(findings) : getFindingStart(f) < getFindingEnd(f)
    /\ \A K1, K2 \in MC : K1 # K2 => K1 \cap K2 = {}

\* C2 as amended: when no input finding belongs to two maximal clusters and
\* every span is non-empty, exactly one finding of every maximal cluster is
\* returned, the one of maximum rank (earliest start, then earliest in the
\* input, among equal ranks)
C2_BestOfDisjointClusters ==
    rofPc = "returned" =>
        LET MC == MaximalClusters IN
        DisjointClusters(MC) => OneBestPerCluster(MC)

\* two clusters, one of them with two findings of equal rank
C2_Witness ==
    /\ rofPc = "returned"
    /\ DisjointClusters(MaximalClusters)
    /\ Len(findings) = 3
    /\ Cardinality(MaximalClusters) = 2
    /\ \E K \in MaximalClusters : \E f, g \in K : f # g /\ Rank(f) = Rank(g)

\* ------------------------------- specification of doRedactAsync on its own
\* largest end offset of a finding the engine reports in this specification
MaxQuoteEnd == 2
\* most findings in one engine response
MaxResponse == 2

Names == Range(InfoTypeNames)
Likelihoods == DOMAIN likelihoodPriority
Thresholds == {likelihoodPriority[l] : l \in Likelihoods}
\* likelihood is a string field of the response: the names of the table and
\* a name that is no key of it
EngineLikelihoods == Likelihoods \cup {"LIKELIHOOD_UNKNOWN"}

\* filter policies: an entry of one threshold for each category of a subset
Policies == {[n \in S |-> th] : S \in SUBSET Names, th \in Thresholds}
\* the filter arguments of a call: a policy, or none
FilterArguments == Policies \cup {undefined}

DoTexts == {<<"a", "b", "a", "b">>}

\* the engine's quote of a span is the text it covers
QuoteOf(text, s, e) == SubSeq(text, s + 1, e)

\* a response: findings of non-empty spans of the text, any likelihood of the
\* table, any requested category
EngineFinding(text, i, d) == Finding(i, d[1], d[2], QuoteOf(text, d[3], d[4]), d[3], d[4])
Detections(text, maxEnd) ==
    {d \in Names \X EngineLikelihoods \X (0..maxEnd) \X (0..maxEnd) :
        d[3] < d[4] /\ d[4] <= Len(text)}

DoInit == RofIdle /\ DoIdle /\ RunIdle /\ SubIdle

\* doRedactAsync(textToRedact, filter, replaceText) is called
DoRedactAsync ==
    /\ doPc = "idle"
    /\ \E text \in DoTexts, f \in FilterArguments, r \in BOOLEAN :
          /\ doText' = text
          /\ doFilter' = f
          /\ doReplaceText' = r
    /\ doPc' = "getProjectId"
    /\ UNCHANGED <<doRaw, doOutput, rofVars, runVars, subVars>>

\* await this.dlpClient.getProjectId() returns
GetProjectIdResolves ==
    /\ doPc = "getProjectId"
    /\ doPc' = "inspectContent"
    /\ UNCHANGED <<doText, doFilter, doReplaceText, doRaw, doOutput, rofVars, runVars, subVars>>

\* await this.dlpClient.getProjectId() throws
GetProjectIdRejects ==
    /\ doPc = "getProjectId"
    /\ doPc' = "rejected"
    /\ doOutput' = [error |-> "getProjectId"]
    /\ UNCHANGED <<doText, doFilter, doReplaceText, doRaw, rofVars, runVars, subVars>>

\* await this.dlpClient.inspectContent(...) returns raw; the rest of
\* doRedactAsync runs to its return
InspectContentResolves ==
    /\ doPc = "inspectContent"
    /\ \E n \in 0..MaxResponse :
          \E ds \in [1..n -> Detections(doText, MaxQuoteEnd)] :
             LET raw == [i \in 1..n |-> EngineFinding(doText, i, ds[i])] IN
             /\ doRaw' = raw
             /\ IF LookupThrows(raw, doFilter)
                THEN /\ doOutput' = [error |-> "TypeError"]
                     /\ doPc' = "rejected"
                ELSE /\ doOutput' = DoRedactOutput(doText, raw, doFilter, doReplaceText)
                     /\ doPc' = "resolved"
    /\ UNCHANGED <<doText, doFilter, doReplaceText, rofVars, runVars, subVars>>

\* await this.dlpClient.inspectContent(...) throws
InspectContentRejects ==
    /\ doPc = "inspectContent"
    /\ doPc' = "rejected"
    /\ doOutput' = [error |-> "inspectContent"]
    /\ UNCHANGED <<doText, doFilter, doReplaceText, doRaw, rofVars, runVars, subVars>>

DoNext ==
    \/ DoRedactAsync
    \/ GetProjectIdResolves
    \/ GetProjectIdRejects
    \/ InspectContentResolves
    \/ InspectContentRejects

SpecDoRedact == DoInit /\ [][DoNext]_vars


\* ------------------------------ specification of redactAsync / inspectStructured
\* longest content handed to redactAsync
MaxTextLen == 6
\* most rows handed to inspectStructured
MaxRows == 3
\* largest opts.maxContentSizeForBatch
MaxBatchOption == 2
\* half of MAX_CONTENT_LENGTH (MAX_DLP_CONTENT_LENGTH, or the environment's value)
HalfContentLength == 3
MAX_CONTENT_LENGTH == 2 * HalfContentLength
\* the loops are cut off after this many calls; no terminating loop needs more
MaxCalls == Max(MaxTextLen, MaxRows) + 1

MaxPromisesSettings == {2, DefaultMaxPromises}
\* header counts: rows per batch 24999, 4, 1, 0 and -1
HeaderCounts == {1, 5000, 12500, 12501, 25001}
BatchLikelihoods == {"POSSIBLE", "VERY_LIKELY"}
BatchPolicies == {[n \in {<<"U">>} |-> 4], undefined}

Alphabet == <<"a", "b", "c", "d", "e", "f", "g", "h", "i", "j", "k", "l">>
Text(n) == [i \in 1..n |-> Alphabet[((i - 1) % Len(Alphabet)) + 1]]
Row(i) == <<<<"r">> \o DecimalString(i)>>
Rows(n) == [i \in 1..n |-> Row(i)]

\* what the engine may answer to call c: nothing, or one finding on the
\* first two characters of what it was sent (one, if that is all)
TextResponses(c, text) ==
    LET e == Min(2, Len(text)) IN
    {<<>>} \cup
    {<<Finding(c, <<"U">>, l, QuoteOf(text, 0, e), 0, e)>> :
        l \in IF Len(text) > 0 THEN BatchLikelihoods ELSE {}}
TableResponses(c, rowsBatch) ==
    {<<>>} \cup
    {[findings |-> <<Finding(c, <<"U">>, l, <<"r">>, 0, 1)>>] :
        l \in IF Len(rowsBatch) > 0 THEN BatchLikelihoods ELSE {}}

Init ==
    /\ RofIdle
    /\ DoIdle
    /\ SubIdle
    /\ opts \in [maxContentSizeForBatch : 0..MaxBatchOption,
                 disableAutoBatchWhenContentSizeExceedsLimit : BOOLEAN]
    /\ MAX_PROMISES \in MaxPromisesSettings
    /\ op = "none"
    /\ textToRedact = <<>>
    /\ headers = <<>>
    /\ rows = <<>>
    /\ filter = <<>>
    /\ maxContentSize = 0
    /\ batchStartIndex = 0
    /\ batchPromises = <<>>
    /\ batchResults = <<>>
    /\ calls = <<>>
    /\ settled = <<>>
    /\ pc = "idle"
    /\ outcome = <<>>

\* a call of doRedactAsync(batchText, filter) or
\* doInspectStructured(headers, rowsBatch, filter): its promise is pending
\* while it awaits getProjectId and then the engine
NewCall(batchText, hdrs, rowsBatch) ==
    [text |-> batchText, headers |-> hdrs, rows |-> rowsBatch,
     state |-> "pending", settledWith |-> <<>>]

\* this.opts.maxContentSizeForBatch || MAX_CONTENT_LENGTH / 2
TextBatchSize ==
    IF opts.maxContentSizeForBatch # 0
    THEN opts.maxContentSizeForBatch
    ELSE MAX_CONTENT_LENGTH \div 2

\* redactAsync(textToRedact, filter) up to its loop or its single call
RedactAsync ==
    /\ pc = "idle"
    /\ \E n \in 0..MaxTextLen, f \in BatchPolicies :
          /\ textToRedact' = Text(n)
          /\ filter' = f
          /\ IF n > TextBatchSize /\ ~opts.disableAutoBatchWhenContentSizeExceedsLimit
             THEN /\ pc' = "loop"
                  /\ calls' = <<>>
             ELSE /\ pc' = "awaitSingle"
                  /\ calls' = <<NewCall(Text(n), <<>>, <<>>)>>
    /\ op' = "redactAsync"
    /\ maxContentSize' = TextBatchSize
    /\ UNCHANGED <<headers, rows, envVars, loopVars, settled, outcome, rofVars, doVars, subVars>>

\* inspectStructured(headers, rows, filter) up to its loop or its single call
InspectStructured ==
    /\ pc = "idle"
    /\ \E h \in HeaderCounts, n \in 0..MaxRows, f \in BatchPolicies :
          /\ headers' = [length |-> h]
          /\ rows' = Rows(n)
          /\ filter' = f
          /\ maxContentSize' = RowsPerBatch(h)
          /\ IF RowsExceed(n, h)
             THEN /\ pc' = "loop"
                  /\ calls' = <<>>
             ELSE /\ pc' = "awaitSingle"
                  /\ calls' = <<NewCall(<<>>, [length |-> h], Rows(n))>>
    /\ op' = "inspectStructured"
    /\ UNCHANGED <<textToRedact, envVars, loopVars, settled, outcome, rofVars, doVars, subVars>>

\* the length the loop runs to
ContentLength == IF op = "redactAsync" THEN Len(textToRedact) ELSE Len(rows)

\* a plausible slip: the wave is awaited only once it is over the limit
WaveFullOffByOne(n) == n > MAX_PROMISES

\* a plausible slip: no await inside the loop, every call is awaited at the end
WaveNeverFull(n) == FALSE

\* batchPromises.length >= MAX_PROMISES
WaveFull(n) == n >= MAX_PROMISES

\* a plausible slip: the batch ends one short of batchStartIndex + maxContentSize
BatchEndShort(start, size) == start + size - 1

\* const batchEndIndex = batchStartIndex + maxContentSize
BatchEnd(start, size) == start + size

\* one iteration of the while loop: the next slice is cut and its call issued;
\* a full wave is then awaited
IssueBatch ==
    /\ pc = "loop"
    /\ batchStartIndex < ContentLength
    /\ Len(calls) < MaxCalls
    /\ LET batchEndIndex == BatchEnd(batchStartIndex, maxContentSize)
           call == IF op = "redactAsync"
                   THEN NewCall(Substring(textToRedact, batchStartIndex, batchEndIndex),
                                <<>>, <<>>)
                   ELSE NewCall(<<>>, headers, Slice(rows, batchStartIndex, batchEndIndex))
       IN /\ calls' = Append(calls, call)
          /\ batchPromises' = Append(batchPromises, Len(calls) + 1)
          /\ batchStartIndex' = batchEndIndex
          /\ pc' = IF WaveFull(Len(batchPromises) + 1) THEN "awaitWave" ELSE "loop"
    /\ UNCHANGED <<batchResults, settled, outcome, envVars, argVars, rofVars, doVars, subVars>>

\* the while condition fails: the last, partial wave is awaited
LoopExit ==
    /\ pc = "loop"
    /\ ~(batchStartIndex < ContentLength)
    /\ pc' = "awaitLast"
    /\ UNCHANGED <<calls, settled, outcome, envVars, argVars, loopVars, rofVars, doVars, subVars>>

\* how the promise of doRedactAsync settles once inspectContent has returned
\* raw: the filter callback throws, or the function returns its value
DoRedactSettles(text, raw, filter_, replaceText) ==
    IF LookupThrows(raw, filter_)
    THEN [state |-> "rejected", settledWith |-> [error |-> "TypeError"]]
    ELSE [state |-> "fulfilled",
          settledWith |-> DoRedactOutput(text, raw, filter_, replaceText)]

\* the same for doInspectStructured and the response of its request
DoInspectSettles(response, filter_) ==
    IF LookupThrows(ResponseFindings(response), filter_)
    THEN [state |-> "rejected", settledWith |-> [error |-> "TypeError"]]
    ELSE [state |-> "fulfilled", settledWith |-> DoInspectOutput(response, filter_)]

\* a plausible slip: the default of replaceText is true
DefaultReplaceTextOn == TRUE

\* doRedactAsync(textToRedact, filter?, replaceText = false): the value of
\* replaceText in the calls of redactAsync, which pass two arguments
DefaultReplaceText == FALSE

\* the errors of the client library: of getProjectId, of the engine request
EngineErrors == {"getProjectId", "request"}

\* a call settles only while the run is suspended in an await; the rejection
\* of a call of the awaited wave resumes the run before any other callback
Suspended ==
    /\ pc \in {"awaitWave", "awaitLast", "awaitSingle"}
    /\ \A c \in 1..Len(calls) : calls[c].state # "rejected"

\* getProjectId or the engine request of call c throws: its promise rejects
\* with the error of the client library
CallRejects ==
    /\ Suspended
    /\ \E c \in 1..Len(calls), e \in EngineErrors :
          /\ calls[c].state = "pending"
          /\ calls' = [calls EXCEPT ![c].state = "rejected",
                                    ![c].settledWith = [error |-> e]]
          /\ settled' = Append(settled, c)
    /\ UNCHANGED <<pc, outcome, envVars, argVars, loopVars, rofVars, doVars, subVars>>

\* the engine answers call c: the rest of doRedactAsync / doInspectStructured
\* runs and its promise fulfils
CallResolves ==
    /\ Suspended
    /\ \E c \in 1..Len(calls) :
          /\ calls[c].state = "pending"
          /\ \E end \in
                IF op = "redactAsync"
                THEN {DoRedactSettles(calls[c].text, raw, filter, DefaultReplaceText) :
                        raw \in TextResponses(c, calls[c].text)}
                ELSE {DoInspectSettles(response, filter) :
                        response \in TableResponses(c, calls[c].rows)} :
                calls' = [calls EXCEPT ![c].state = end.state,
                                       ![c].settledWith = end.settledWith]
          /\ settled' = Append(settled, c)
    /\ UNCHANGED <<pc, outcome, envVars, argVars, loopVars, rofVars, doVars, subVars>>

\* Promise.all(promises) fulfils: every promise has fulfilled
AllFulfilled(promises) ==
    \A i \in 1..Len(promises) : calls[promises[i]].state = "fulfilled"

\* a plausible slip: the values are taken in the order the calls settled
ValuesInSettlementOrder(promises) ==
    LET mine == SelectSeq(settled, LAMBDA c : c \in Range(promises)) IN
    [i \in 1..Len(mine) |-> calls[mine[i]].settledWith]

\* the array Promise.all(promises) fulfils with: the values in array order
PromiseAllValues(promises) ==
    [i \in 1..Len(promises) |-> calls[promises[i]].settledWith]

\* the reason Promise.all(promises) rejects with: that of the first to reject
FirstRejected(promises) ==
    LET mine == SelectSeq(settled, LAMBDA c :
                    c \in Range(promises) /\ calls[c].state = "rejected")
    IN mine[1]

\* await Promise.all(batchPromises) of a full wave returns: the loop goes on
WaveResumes ==
    /\ pc = "awaitWave"
    /\ AllFulfilled(batchPromises)
    /\ batchResults' = batchResults \o PromiseAllValues(batchPromises)
    /\ batchPromises' = <<>>
    /\ settled' = <<>>
    /\ pc' = "loop"
    /\ UNCHANGED <<batchStartIndex, calls, outcome, envVars, argVars, rofVars, doVars, subVars>>

\* await Promise.all(batchPromises) after the loop returns: the results are
\* merged and returned
LastWaveResumes ==
    /\ pc = "awaitLast"
    /\ AllFulfilled(batchPromises)
    /\ batchResults' = batchResults \o PromiseAllValues(batchPromises)
    /\ outcome' = Merge(batchResults \o PromiseAllValues(batchPromises))
    /\ pc' = "done"
    /\ UNCHANGED <<batchStartIndex, batchPromises, calls, settled, envVars, argVars,
                   rofVars, doVars, subVars>>

\* await Promise.all(batchPromises) throws: redactAsync / inspectStructured
\* rejects with the reason of the first call that rejected
AwaitThrows ==
    /\ pc \in {"awaitWave", "awaitLast"}
    /\ \E i \in 1..Len(batchPromises) : calls[batchPromises[i]].state = "rejected"
    /\ outcome' = [status |-> "rejected",
                   reason |-> calls[FirstRejected(batchPromises)].settledWith]
    /\ pc' = "done"
    /\ UNCHANGED <<calls, settled, envVars, argVars, loopVars, rofVars, doVars, subVars>>

\* the single call settles: the run settles the same way
SingleCallSettles ==
    /\ pc = "awaitSingle"
    /\ calls[1].state \in {"fulfilled", "rejected"}
    /\ outcome' = IF calls[1].state = "fulfilled"
                  THEN [status |-> "fulfilled", value |-> calls[1].settledWith]
                  ELSE [status |-> "rejected", reason |-> calls[1].settledWith]
    /\ pc' = "done"
    /\ UNCHANGED <<calls, settled, envVars, argVars, loopVars, rofVars, doVars, subVars>>

Next ==
    \/ RedactAsync
    \/ InspectStructured
    \/ IssueBatch
    \/ LoopExit
    \/ CallRejects
    \/ CallResolves
    \/ WaveResumes
    \/ LastWaveResumes
    \/ AwaitThrows
    \/ SingleCallSettles

Spec == Init /\ [][Next]_vars

\* the same with progress: the event loop runs whatever can run, and every
\* engine call completes
FairSpec == Spec /\ WF_vars(Next)

\* ------------------- specification of the replaceText branch, step by step
\* most findings in findingsWithoutOverlaps
MaxSubFindings == 2
\* largest end offset of a finding in this specification
MaxSubEnd == 3

SubTexts == {<<"a", "b", "a", "b">>}
\* two detectors, each with its category label and the likelihood it
\* reports: a label that contains a quote of the text, which the sort puts
\* last, and a label that is a quote of the text
SubDetectors == {<<<<"N", "a", "b">>, "POSSIBLE">>, <<<<"a", "b">>, "LIKELY">>}
\* spans of one or two characters that start in the first half of the text
SubSpans ==
    {sp \in (0..MaxSubEnd) \X (0..MaxSubEnd) :
        sp[1] < sp[2] /\ sp[2] - sp[1] <= 2 /\ 2 * sp[1] < MaxSubEnd}
SubShapes == {<<d[1], d[2], sp>> : d \in SubDetectors, sp \in SubSpans}

\* the findings the resolver hands over: the quote of a finding is the text
\* its span covers
SubFindingList(text, sh) ==
    [i \in DOMAIN sh |->
        Finding(i, sh[i][1], sh[i][2], QuoteOf(text, sh[i][3][1], sh[i][3][2]),
                sh[i][3][1], sh[i][3][2])]

\* doRedactAsync has reached if (replaceText) with its text and the list
\* removeOverlappingFindings returned
SubInit ==
    /\ RofIdle
    /\ DoIdle
    /\ RunIdle
    /\ subInput \in SubTexts
    /\ subText = subInput
    /\ \E n \in 0..MaxSubFindings : \E sh \in [1..n -> SubShapes] :
          subFindings = SubFindingList(subInput, sh)
    /\ subIndex = 0
    /\ numSearches = 0
    /\ subPc = "sort"

\* findingsWithoutOverlaps.sort(...), in place
SortFindings ==
    /\ subPc = "sort"
    /\ subFindings' = SortByLikelihood(subFindings)
    /\ subIndex' = 1
    /\ subPc' = "forEach"
    /\ UNCHANGED <<subInput, subText, numSearches, rofVars, doVars, runVars>>

\* the callback of forEach returns at once: the quote is the label or is
\* too short
SkipFinding ==
    /\ subPc = "forEach"
    /\ subIndex <= Len(subFindings)
    /\ ~Replaceable(subFindings[subIndex])
    /\ subIndex' = subIndex + 1
    /\ UNCHANGED <<subInput, subText, subFindings, numSearches, subPc,
                   rofVars, doVars, runVars>>

\* the callback of forEach reaches its loop: let numSearches = 0
EnterLoop ==
    /\ subPc = "forEach"
    /\ subIndex <= Len(subFindings)
    /\ Replaceable(subFindings[subIndex])
    /\ numSearches' = 0
    /\ subPc' = "loop"
    /\ UNCHANGED <<subInput, subText, subFindings, subIndex, rofVars, doVars, runVars>>

\* the loop test holds: one replacement
ReplaceIteration ==
    /\ subPc = "loop"
    /\ LET finding == subFindings[subIndex] IN
       /\ LoopTest(subText, finding.quote, numSearches)
       /\ subText' = ReplaceFirst(subText, finding.quote, finding.infoType.name)
    /\ numSearches' = numSearches + 1
    /\ UNCHANGED <<subInput, subFindings, subIndex, subPc, rofVars, doVars, runVars>>

\* the loop test fails: the callback returns, forEach moves on
LoopEnds ==
    /\ subPc = "loop"
    /\ ~LoopTest(subText, subFindings[subIndex].quote, numSearches)
    /\ subIndex' = subIndex + 1
    /\ subPc' = "forEach"
    /\ UNCHANGED <<subInput, subText, subFindings, numSearches, rofVars, doVars, runVars>>

\* forEach has visited every finding
ForEachEnds ==
    /\ subPc = "forEach"
    /\ subIndex > Len(subFindings)
    /\ subPc' = "done"
    /\ UNCHANGED <<subInput, subText, subFindings, subIndex, numSearches,
                   rofVars, doVars, runVars>>

SubNext ==
    \/ SortFindings
    \/ SkipFinding
    \/ EnterLoop
    \/ ReplaceIteration
    \/ LoopEnds
    \/ ForEachEnds

SpecSubstitute == SubInit /\ [][SubNext]_vars

\* ------------------------------ specification of the merge of batch results
\* most slice results handed to the merge
MaxMergeResults == 3

\* the policy of the run: category U from rank 4 (LIKELY) on
MergePolicy == [n \in {<<"U">>} |-> 4]

\* a response the engine has capped: 2000 findings, here of a likelihood the
\* policy drops
CappedResponse ==
    [i \in 1..FindingsCapThreshold |-> Finding(i, <<"U">>, "POSSIBLE", <<"a">>, 0, 1)]

\* what the engine may have answered to one slice
MergeResponses ==
    {<<>>,
     <<Finding(1, <<"U">>, "POSSIBLE", <<"a">>, 0, 1)>>,
     <<Finding(1, <<"U">>, "VERY_LIKELY", <<"a">>, 0, 1),
       Finding(2, <<"U">>, "LIKELY", <<"a">>, 0, 1)>>,
     CappedResponse}

\* the values doRedactAsync / doInspectStructured returned for the slices
TextSliceOutputs ==
    {DoRedactOutput(<<"a">>, raw, MergePolicy, FALSE) : raw \in MergeResponses}
TableSliceOutputs ==
    {DoInspectOutput([findings |-> raw], MergePolicy) : raw \in MergeResponses}

\* redactAsync / inspectStructured has left its loop and the last
\* await Promise.all has returned: batchResults holds a result for every slice
MergeInit ==
    /\ RofIdle
    /\ DoIdle
    /\ SubIdle
    /\ opts = <<>>
    /\ MAX_PROMISES = DefaultMaxPromises
    /\ op \in {"redactAsync", "inspectStructured"}
    /\ textToRedact = <<>>
    /\ headers = <<>>
    /\ rows = <<>>
    /\ filter = MergePolicy
    /\ maxContentSize = 0
    /\ batchStartIndex = 0
    /\ batchPromises = <<>>
    /\ \E n \in 1..MaxMergeResults :
          batchResults \in [1..n -> IF op = "redactAsync"
                                    THEN TextSliceOutputs
                                    ELSE TableSliceOutputs]
    /\ calls = <<>>
    /\ settled = <<>>
    /\ pc = "merge"
    /\ outcome = <<>>

\* the maps and reduces over batchResults, and the return
MergeResults ==
    /\ pc = "merge"
    /\ outcome' = Merge(batchResults)
    /\ pc' = "done"
    /\ UNCHANGED <<calls, settled, envVars, argVars, loopVars, rofVars, doVars, subVars>>

MergeNext == MergeResults

SpecMerge == MergeInit /\ [][MergeNext]_vars

\* ------------------------------------------------- doRedactAsync properties
\* keep(f, p) of the Filter Policy: p has no entry for f's category, or
\* rank(f.likelihood) >= p[f.category]
PolicyKeeps(f, p) ==
    \/ f.infoType.name \notin DOMAIN p
    \/ Rank(f) >= p[f.infoType.name]

\* C7: a finding of the response is in the returned findings if and only if
\* the policy has no entry for its category or its rank is at least the
\* entry, for every likelihood and every threshold of the rank table
C7_FilterIffPolicyKeeps ==
    doPc = "resolved" =>
        \A i \in 1..Len(doRaw) :
            HasPriority(doRaw[i].likelihood) =>
                ((doRaw[i] \in Range(doOutput.findings))
                    <=> PolicyKeeps(doRaw[i], doFilter))

\* C8: the findings of every result doRedactAsync returns have passed the
\* filter and the resolver: no two of them have overlapping spans
C8_ReturnedFindingsResolved ==
    doPc = "resolved" =>
        /\ \A f \in Range(doOutput.findings) : Keep(f, doFilter)
        /\ \A i, j \in 1..Len(doOutput.findings) :
              i # j => ~Overlaps(doOutput.findings[i], doOutput.findings[j])

\* ------------------------------------------------------ batching properties
RECURSIVE Flatten(_)
Flatten(seqs) ==
    IF Len(seqs) = 0 THEN <<>>
    ELSE Flatten(SubSeq(seqs, 1, Len(seqs) - 1)) \o seqs[Len(seqs)]

\* the run took the batched branch
Batched ==
    \/ /\ op = "redactAsync"
       /\ Len(textToRedact) > maxContentSize
       /\ ~opts.disableAutoBatchWhenContentSizeExceedsLimit
    \/ /\ op = "inspectStructured"
       /\ RowsExceed(Len(rows), headers.length)

Fulfilled == pc = "done" /\ outcome.status = "fulfilled"
Rejected == pc = "done" /\ outcome.status = "rejected"

\* the calls issued and not yet completed
InFlight == {c \in 1..Len(calls) : calls[c].state = "pending"}

\* C3: in every state the number of calls issued and not yet completed is at
\* most MAX_PROMISES
C3_InFlightBounded == Cardinality(InFlight) <= MAX_PROMISES

\* a wave after the first is full: MAX_PROMISES calls in flight
C3_Witness ==
    /\ Batched
    /\ Len(batchResults) > 0
    /\ Cardinality(InFlight) = MAX_PROMISES

\* the wave of the k-th call issued
WaveOf(k) == (k - 1) \div MAX_PROMISES

\* C4: whenever a call of a wave has been issued, every call of every
\* earlier wave has completed
C4_WaveAfterWave ==
    \A j, k \in 1..Len(calls) :
        WaveOf(j) < WaveOf(k) => calls[j].state = "fulfilled"

\* a call of the second wave is in flight
C4_Witness ==
    /\ Batched
    /\ Len(calls) > MAX_PROMISES
    /\ calls[Len(calls)].state = "pending"

\* C5: the merged text and findings of a batched run whose calls all succeeded
\* are the per-slice texts and findings concatenated in slice order, whatever
\* the order in which the calls completed
C5_MergedInSliceOrder ==
    (Fulfilled /\ Batched) =>
        /\ outcome.value.text =
              Flatten([k \in 1..Len(calls) |-> calls[k].settledWith.text])
        /\ outcome.value.findings =
              Flatten([k \in 1..Len(calls) |-> calls[k].settledWith.findings])

\* a merged run whose last wave completed in another order than it was issued,
\* with findings in two slices
C5_Witness ==
    /\ Fulfilled
    /\ Batched
    /\ settled # batchPromises
    /\ Len(outcome.value.findings) >= 2
    /\ Len(outcome.value.text) >= 2

CeilDiv(a, b) == (a + b - 1) \div b

\* C6: the k-th slice redactAsync dispatches is the content from (k-1)*S up to
\* k*S or the end; once the loop is over there are ceil(L/S) slices and their
\* concatenation is the content
C6_SlicesPartitionContent ==
    (op = "redactAsync" /\ Batched) =>
        LET L == Len(textToRedact)
            S == maxContentSize
        IN /\ \A k \in 1..Len(calls) :
                 calls[k].text = SubSeq(textToRedact, (k - 1) * S + 1, Min(k * S, L))
           /\ (pc = "awaitLast" \/ Fulfilled) =>
                 /\ Len(calls) = CeilDiv(L, S)
                 /\ Flatten([k \in 1..Len(calls) |-> calls[k].text]) = textToRedact
                 /\ Fulfilled => outcome.value.text = textToRedact

\* three or more slices, the last one shorter
C6_Witness ==
    /\ op = "redactAsync"
    /\ Batched
    /\ Fulfilled
    /\ Len(calls) >= 3
    /\ Len(textToRedact) % maxContentSize # 0

\* the rejection names the operation that failed: the single call, or the
\* batch slice
IdentifiesFailedOperation(reason) ==
    /\ "operation" \in DOMAIN reason
    /\ IF Batched
       THEN \E c \in 1..Len(calls) :
               calls[c].state = "rejected" /\ reason.operation = [slice |-> c]
       ELSE reason.operation = "single"

\* C9: a finished run has returned a result that merges every slice, or a
\* failure that names the single call or the batch slice that failed
C9_CompleteOrIdentifiedFailure ==
    pc = "done" =>
        IF outcome.status = "fulfilled"
        THEN /\ \A c \in 1..Len(calls) : calls[c].state = "fulfilled"
             /\ Batched => Len(batchResults) = Len(calls)
        ELSE IdentifiesFailedOperation(outcome.reason)

\* C10: inspectStructured computes floor(50000 / H / 2) - 1 rows per batch;
\* no batch has more rows, the batches are consecutive row ranges covering
\* every row once, and every batch carries the same header list
C10_RowBatches ==
    op = "inspectStructured" =>
        LET H == headers.length
            perBatch == ((TableBudget \div H) \div 2) - 1
            sent == Flatten([k \in 1..Len(calls) |-> calls[k].rows])
        IN /\ maxContentSize = perBatch
           /\ \A k \in 1..Len(calls) :
                 /\ Len(calls[k].rows) <= perBatch
                 /\ calls[k].headers = headers
           /\ sent = SubSeq(rows, 1, Len(sent))
           /\ Fulfilled => sent = rows

\* ------------------------------------------------------- error handling
\* C11: when doRedactAsync is called without a filter (undefined), the call
\* does not fail with a lookup error and returns every finding of the
\* engine, for an empty and for a non-empty finding list
C11_MissingPolicyKeepsAll ==
    doFilter = undefined =>
        /\ doPc = "rejected" => doOutput.error # "TypeError"
        /\ doPc = "resolved" => Range(doOutput.findings) = Range(doRaw)

\* C12: a response with a finding whose likelihood is no name of the rank
\* table never yields a result: the filter meets every finding of a
\* non-empty response, so the call ends in an error
C12_UnknownLikelihoodFails ==
    (\E i \in 1..Len(doRaw) : ~HasPriority(doRaw[i].likelihood)) => doPc # "resolved"

\* ------------------------------------------------- substitution properties
\* the findings of a second run: each quote is now the category label
Relabelled(fs) == [i \in DOMAIN fs |-> [fs[i] EXCEPT !.quote = fs[i].infoType.name]]

\* no label is the quote of a finding of another category
NoLabelIsAnotherQuote(fs) ==
    \A f, g \in Range(fs) :
        f.infoType.name # g.infoType.name => f.infoType.name # g.quote

SubVariant ==
    LET W == MaxSearches + 3
        left == Len(subFindings) - subIndex + 1
    IN CASE subPc = "sort" -> (Len(subFindings) + 1) * W
         [] subPc = "forEach" -> left * W + MaxSearches + 2
         [] subPc = "loop" -> left * W + (MaxSearches - numSearches) + 1
         [] OTHER -> 0

\* C16: the replace loop of a finding never runs more than 1000 times, and
\* the step terminates for every text, quote and label, a label that
\* contains the quote included: every step of it lowers a measure that is
\* never negative
C16_ReplaceLoopBounded ==
    /\ [](subPc = "loop" => numSearches <= MaxSearches)
    /\ [](SubVariant >= 0)
    /\ [][SubVariant' < SubVariant]_subVars

\* the loop has run 1000 times on a label that contains the quote, and the
\* quote is still in the text
C16_Witness ==
    /\ subPc = "loop"
    /\ numSearches = MaxSearches
    /\ IndexOf(subFindings[subIndex].infoType.name, subFindings[subIndex].quote) >= 0
    /\ IndexOf(subText, subFindings[subIndex].quote) >= 0

\* -------------------------------------------------------- merge properties
\* C14: the merged metrics.maxFindings is the largest maxFindings of the
\* slices, metrics.findingsCap is the number of slices whose findingsCap
\* flag is 1, and config is that of the last slice
C14_MergedMetrics ==
    (pc = "done" /\ Len(batchResults) > 0) =>
        LET merged == outcome.value
            slices == 1..Len(batchResults)
        IN /\ outcome.status = "fulfilled"
           /\ \E i \in slices :
                 merged.metrics.maxFindings = batchResults[i].metrics.maxFindings
           /\ \A i \in slices :
                 merged.metrics.maxFindings >= batchResults[i].metrics.maxFindings
           /\ \A i \in slices : batchResults[i].metrics.findingsCap \in {0, 1}
           /\ merged.metrics.findingsCap =
                 Cardinality({i \in slices : batchResults[i].metrics.findingsCap = 1})
           /\ merged.config = batchResults[Len(batchResults)].config

\* three slices were merged, two of them capped, the last one not
C14_Witness ==
    /\ pc = "done"
    /\ Len(batchResults) = 3
    /\ batchResults[1].metrics.findingsCap = 1
    /\ batchResults[2].metrics.findingsCap = 1
    /\ batchResults[3].metrics.maxFindings = 2
    /\ outcome.value.metrics.maxFindings = FindingsCapThreshold

\* C15: every finding of the merged list of a batched run carries the
\* location its own slice call returned, offsets local to the slice; it is
\* not moved by the offset of the slice in the content
C15_SpansStayLocal ==
    (Fulfilled /\ Batched) =>
        \A i \in 1..Len(outcome.value.findings) :
            LET f == outcome.value.findings[i] IN
            \E g \in Range(calls[f.ref].settledWith.findings) :
                /\ g.ref = f.ref
                /\ f.location = g.location
                /\ getFindingStart(f) = getFindingStart(g)
                /\ getFindingEnd(f) = getFindingEnd(g)

\* a merged finding of a later slice of a text: its quote is at
\* (k - 1) * maxContentSize in the content, its span still starts at 0
C15_Witness ==
    /\ Fulfilled
    /\ Batched
    /\ op = "redactAsync"
    /\ \E i \in 1..Len(outcome.value.findings) :
          LET f == outcome.value.findings[i] IN
          /\ f.ref >= 2
          /\ (f.ref - 1) * maxContentSize > 0
          /\ getFindingStart(f) = 0
          /\ f.quote = SubSeq(textToRedact, (f.ref - 1) * maxContentSize + 1,
                                            (f.ref - 1) * maxContentSize + getFindingEnd(f))

\* C18: whenever redactAsync returns a result, on the single-call path and
\* on the batched path, the text of the result is the input text, whatever
\* findings the engine reported
C18_RedactAsyncKeepsText ==
    (op = "redactAsync" /\ Fulfilled) => outcome.value.text = textToRedact

\* a merged result with a finding that substitution would replace: it
\* passed the policy and its quote has two characters
C18_Witness ==
    /\ op = "redactAsync"
    /\ Fulfilled
    /\ Batched
    /\ \E f \in Range(outcome.value.findings) : Replaceable(f) /\ Keep(f, filter)

\* every iteration of the loop moves batchStartIndex forward.  The loop
\* condition reads batchStartIndex alone and maxContentSize is fixed, so an
\* iteration that does not move it forward is followed by another one, without
\* end; the bound MaxCalls on the calls of a run is then all that stops the loop
EveryBatchAdvances ==
    [][(pc = "loop" /\ Len(calls') > Len(calls))
          => batchStartIndex' > batchStartIndex]_vars

====
